---- MODULE Spec2Model ----
(***************************************************************************)
(* Model of git-pack's multi_index::File::verify_integrity                 *)
(* (src/git-pack/src/multi_index/verify.rs).                               *)
(*                                                                         *)
(* The multi-index file (self) is fixed at Init.  The collaborators the    *)
(* verifier calls (the checksum pass, Bundle::at, the pack index lookup,   *)
(* Bundle::verify_integrity) return values that are inputs of the action   *)
(* that calls them.  One action is one step of the function body; `pc`     *)
(* is the position in it.  `trace`, `bundles` and `delegated` are history  *)
(* variables: what was done, what was opened, what the single-pack         *)
(* verifier answered.                                                      *)
(*                                                                         *)
(* The second part models git-worktree's Stack                             *)
(* (src/git-worktree/src/fs/stack.rs): make_relative_path_current step by  *)
(* step, the Delegate's answers being inputs of the step that calls it.    *)
(* SpecStack runs the stack alone, Spec the verifier alone.                *)
(***************************************************************************)
EXTENDS Integers, Sequences, FiniteSets, TLC

\* ------------------------------------------------------------- bounds
MaxObjects == 3
MaxOid == 2
MaxOffset == 1
MaxPacks == 2
FanLen == 4
MaxFan == 1
MaxHash == 2
MaxData == 2
MaxName == 2
MaxDepth == 3
MaxCalls == 3

Oids == 1..MaxOid
Offsets == 0..MaxOffset
Hashes == 1..MaxHash
Payloads == 1..MaxData
Names == 1..MaxName

VARIABLES
    \* the multi-index file (self), read-only
    checksum,               \* trailer hash stored in the file
    data_hash,              \* hash of the file's contents as they are on disk
    fan,                    \* the fan table
    num_objects,
    oids,                   \* object-id table, entry i at position i + 1
    pack_entries,           \* [pack_id, pack_offset] table, aligned with oids
    num_indices,            \* Len(index_names); the name at position p is p
    \* arguments
    should_interrupt,
    \* locals of verify_integrity
    pc,
    actual_index_checksum,
    entry_index,
    pack_ids_and_offsets,
    pack_ids_slice,
    total_objects_checked,
    pack_id,
    bundle,
    multi_index_entries_to_check,
    pack_traverse_outcomes,
    result,
    \* history
    trace,
    bundles,
    delegated,
    \* the worktree Stack (src/git-worktree/src/fs/stack.rs)
    root,
    current,
    current_relative,
    valid_components,
    \* Stack::make_relative_path_current: argument, position, locals, return value
    relative,
    stack_pc,
    components,             \* what the peekable iterator over `relative` still holds
    matching_components,
    popped_items,
    pushed_items,
    returned,
    \* history of the stack
    log,                    \* the delegate's callbacks during the latest call
    inits,                  \* calls of Delegate::init since Stack::new
    calls,                  \* calls of make_relative_path_current since Stack::new
    relative_before,        \* current_relative when the latest call began
    valid_before,           \* valid_components when the latest call began
    push_directories,       \* calls of Delegate::push_directory since Stack::new
    pop_directories,        \* calls of Delegate::pop_directory since Stack::new
    failures,               \* callbacks that returned an error since Stack::new
    nested_requests         \* requests that shortened or extended the request before

self_vars == <<checksum, data_hash, fan, num_objects, oids, pack_entries, num_indices>>
local_vars == <<actual_index_checksum, entry_index, pack_ids_and_offsets, pack_ids_slice,
                total_objects_checked, pack_id, bundle, multi_index_entries_to_check,
                pack_traverse_outcomes>>
hist_vars == <<trace, bundles, delegated>>
verify_vars == <<self_vars, should_interrupt, pc, local_vars, result, hist_vars>>
stack_fields == <<root, current, current_relative, valid_components>>
stack_locals == <<relative, stack_pc, components, matching_components, popped_items,
                  pushed_items, returned>>
stack_hist == <<log, inits, calls, relative_before, valid_before, push_directories,
                pop_directories, failures, nested_requests>>
stack_vars == <<stack_fields, stack_locals, stack_hist>>
vars == <<verify_vars, stack_vars>>

\* ------------------------------------------------------------- values
NoBundle == [ok |-> FALSE, index |-> <<>>]

\* An event of the history: what was done, to which pack, to which entry.
Ev(what, p, e) == [ev |-> what, pack |-> p, entry |-> e]

Running == [status |-> "Running"]
Panicked == [status |-> "Panic"]
Err(e) == [status |-> "Err", error |-> e]
Ok(c, o) == [status |-> "Ok", actual_index_checksum |-> c, pack_traverse_outcomes |-> o]

\* crate::index::traverse::Error
Processor(e) == [variant |-> "Processor", err |-> e]
Interrupted == [variant |-> "Interrupted", data |-> 0]

\* integrity::Error
PackOffsetMismatch(id, expected, actual) ==
    [kind |-> "PackOffsetMismatch", id |-> id, expected_pack_offset |-> expected,
     actual_pack_offset |-> actual]
MultiIndexChecksum(e) == [kind |-> "MultiIndexChecksum", source |-> e]
IndexIntegrity(e) == [kind |-> "IndexIntegrity", source |-> e]
BundleInit(name) == [kind |-> "BundleInit", name |-> name]
UnexpectedObjectCount(actual, expected) ==
    [kind |-> "UnexpectedObjectCount", actual |-> actual, expected |-> expected]
OidNotFound(id) == [kind |-> "OidNotFound", id |-> id]
OutOfOrder(i) == [kind |-> "OutOfOrder", index |-> i]
Fan(i) == [kind |-> "Fan", index |-> i]
Empty == [kind |-> "Empty"]

\* crate::verify::checksum::Error
ChecksumInterrupted == [kind |-> "Interrupted"]
ChecksumMismatch(expected, actual) == [kind |-> "Mismatch", expected |-> expected, actual |-> actual]

\* ------------------------------------------------------------- accessors
oid_at_index(i) == oids[i + 1]

pack_id_and_pack_offset_at_index(i) == pack_entries[i + 1]

\* crate::verify::fan: the first index whose value is larger than the following one,
\* -1 for None.
RECURSIVE FanFrom(_, _)
FanFrom(f, k) ==
    IF k + 1 > Len(f) - 1 THEN -1
    ELSE IF f[k + 1] > f[k + 2] THEN k
    ELSE FanFrom(f, k + 1)

verify_fan(f) == FanFrom(f, 0)

\* crate::verify::checksum_on_disk_or_mmap: the recomputed hash, or an error.
verify_checksum ==
    IF should_interrupt THEN [ok |-> FALSE, err |-> ChecksumInterrupted]
    ELSE IF data_hash = checksum THEN [ok |-> TRUE, id |-> data_hash]
    ELSE [ok |-> FALSE, err |-> ChecksumMismatch(checksum, data_hash)]

\* index::File::lookup on a pack index (sorted by oid): the position of the entry,
\* -1 for None.
RECURSIVE LookupFrom(_, _, _)
LookupFrom(index, id, k) ==
    IF k > Len(index) THEN -1
    ELSE IF index[k].oid = id THEN k - 1
    ELSE LookupFrom(index, id, k + 1)

lookup(index, id) == LookupFrom(index, id, 1)

pack_offset_at_index(index, i) == index[i + 1].offset

\* Faulty variant of out_of_order: equal neighbours pass.
out_of_order_equal_passes(lhs, rhs) == rhs < lhs

\* verify.rs 133: rhs.cmp(lhs) != Ordering::Greater
out_of_order(lhs, rhs) == ~(rhs > lhs)

\* verify.rs 166-180: one entry is looked up in the index of the open pack; the error,
\* or NoError.
NoError == [kind |-> "None"]

\* Faulty variant of check_entry: the two offsets of the error are swapped.
check_entry_swapped(b, entry_id) ==
    LET oid == oid_at_index(entry_id)
        expected_pack_offset == pack_id_and_pack_offset_at_index(entry_id).pack_offset
        entry_in_bundle_index == lookup(b.index, oid)
    IN IF entry_in_bundle_index = -1
       THEN OidNotFound(oid)
       ELSE LET actual_pack_offset == pack_offset_at_index(b.index, entry_in_bundle_index)
            IN IF actual_pack_offset /= expected_pack_offset
               THEN PackOffsetMismatch(oid, actual_pack_offset, expected_pack_offset)
               ELSE NoError

check_entry(b, entry_id) ==
    LET oid == oid_at_index(entry_id)
        expected_pack_offset == pack_id_and_pack_offset_at_index(entry_id).pack_offset
        entry_in_bundle_index == lookup(b.index, oid)
    IN IF entry_in_bundle_index = -1
       THEN OidNotFound(oid)
       ELSE LET actual_pack_offset == pack_offset_at_index(b.index, entry_in_bundle_index)
            IN IF actual_pack_offset /= expected_pack_offset
               THEN PackOffsetMismatch(oid, expected_pack_offset, actual_pack_offset)
               ELSE NoError

\* ------------------------------------------------------------- sorting and slicing
\* Vec::sort_by(|l, r| l.0.cmp(&r.0)): stable, by pack id only.
\* Faulty variant of InsertByPackId: pairs of one pack end up in reverse order.
RECURSIVE InsertByPackIdUnstable(_, _)
InsertByPackIdUnstable(e, s) ==
    IF s = <<>> THEN <<e>>
    ELSE IF s[Len(s)][1] < e[1] THEN Append(s, e)
    ELSE Append(InsertByPackIdUnstable(e, SubSeq(s, 1, Len(s) - 1)), s[Len(s)])

RECURSIVE InsertByPackId(_, _)
InsertByPackId(e, s) ==
    IF s = <<>> THEN <<e>>
    ELSE IF s[Len(s)][1] <= e[1] THEN Append(s, e)
    ELSE Append(InsertByPackId(e, SubSeq(s, 1, Len(s) - 1)), s[Len(s)])

RECURSIVE SortFrom(_, _)
SortFrom(s, k) ==
    IF k = 0 THEN <<>>
    ELSE InsertByPackId(s[k], SortFrom(s, k - 1))

\* Faulty variant of sort_by_pack_id: the pairs stay in table order.
sort_by_pack_id_skipped(s) == s

sort_by_pack_id(s) == SortFrom(s, Len(s))

\* slice::partition_point(|e| e.0 == p): binary search for the end of the prefix
\* on which the predicate holds.
RECURSIVE PartitionLoop(_, _, _, _)
PartitionLoop(s, p, left, right) ==
    IF left >= right THEN left
    ELSE LET mid == left + ((right - left) \div 2)
         IN IF s[mid + 1][1] = p
            THEN PartitionLoop(s, p, mid + 1, right)
            ELSE PartitionLoop(s, p, left, mid)

\* Faulty variant of partition_point: the whole remaining slice is taken.
partition_point_whole_slice(s, p) == Len(s)

partition_point(s, p) == PartitionLoop(s, p, 0, Len(s))

\* ------------------------------------------------------------- inputs
RECURSIVE SeqsUpTo(_, _)
SeqsUpTo(S, n) ==
    IF n = 0 THEN {<<>>}
    ELSE LET shorter == SeqsUpTo(S, n - 1)
         IN shorter \cup {Append(s, x) : s \in {t \in shorter : Len(t) = n - 1}, x \in S}

SeqsOfLen(S, n) == {s \in SeqsUpTo(S, n) : Len(s) = n}

PackEntries == [pack_id : 0..(MaxPacks - 1), pack_offset : Offsets]

\* A pack index: entries sorted by object id, no id twice.
PackIndexes ==
    {s \in SeqsUpTo([oid : Oids, offset : Offsets], MaxOid) :
        \A i \in 1..(Len(s) - 1) : s[i].oid < s[i + 1].oid}

\* What Bundle::at finds on disk: no pack that can be opened, or a pack with its index.
DiskBundles == {NoBundle} \cup {[ok |-> TRUE, index |-> ix] : ix \in PackIndexes}

\* The error variants of Bundle::verify_integrity.
DelegatedVariants ==
    {"Processor", "VerifyChecksum", "Tree", "TreeTraversal", "PackDecode", "PackMismatch",
     "PackObjectMismatch", "Crc32Mismatch"}

DelegatedErrors == [variant : DelegatedVariants, data : Payloads] \cup {Interrupted}

\* What Bundle::verify_integrity answers: it observes should_interrupt.
DelegatedResults ==
    IF should_interrupt THEN {[ok |-> FALSE, err |-> Interrupted]}
    ELSE {[ok |-> TRUE, pack_traverse_outcome |-> o] : o \in Payloads}
         \cup {[ok |-> FALSE, err |-> e] : e \in DelegatedErrors \ {Interrupted}}

\* ------------------------------------------------------------- map_err
\* Faulty variant of RemapDelegatedError: PackObjectMismatch is returned as PackMismatch.
RemapDelegatedErrorCollapsed(err) ==
    CASE err.variant = "Processor" -> Processor(IndexIntegrity(err.data))
      [] err.variant = "VerifyChecksum" -> [variant |-> "VerifyChecksum", data |-> err.data]
      [] err.variant = "Tree" -> [variant |-> "Tree", data |-> err.data]
      [] err.variant = "TreeTraversal" -> [variant |-> "TreeTraversal", data |-> err.data]
      [] err.variant = "PackDecode" -> [variant |-> "PackDecode", data |-> err.data]
      [] err.variant = "PackMismatch" -> [variant |-> "PackMismatch", data |-> err.data]
      [] err.variant = "PackObjectMismatch" -> [variant |-> "PackMismatch", data |-> err.data]
      [] err.variant = "Crc32Mismatch" -> [variant |-> "Crc32Mismatch", data |-> err.data]
      [] err.variant = "Interrupted" -> Interrupted

\* The closure given to map_err on the delegated verification's error.
RemapDelegatedError(err) ==
    CASE err.variant = "Processor" -> Processor(IndexIntegrity(err.data))
      [] err.variant = "VerifyChecksum" -> [variant |-> "VerifyChecksum", data |-> err.data]
      [] err.variant = "Tree" -> [variant |-> "Tree", data |-> err.data]
      [] err.variant = "TreeTraversal" -> [variant |-> "TreeTraversal", data |-> err.data]
      [] err.variant = "PackDecode" -> [variant |-> "PackDecode", data |-> err.data]
      [] err.variant = "PackMismatch" -> [variant |-> "PackMismatch", data |-> err.data]
      [] err.variant = "PackObjectMismatch" -> [variant |-> "PackObjectMismatch", data |-> err.data]
      [] err.variant = "Crc32Mismatch" -> [variant |-> "Crc32Mismatch", data |-> err.data]
      [] err.variant = "Interrupted" -> Interrupted

\* Faulty variant of push_outcome: the outcome is put in front.
push_outcome_front(outcomes, o) == <<o>> \o outcomes

\* verify.rs 234: pack_traverse_outcomes.push(pack_traverse_outcome)
push_outcome(outcomes, o) == Append(outcomes, o)

\* ------------------------------------------------------------- the worktree stack
\* A path is the sequence of its components; index paths have normal components only.
Paths == SeqsUpTo(Names, MaxDepth)

\* Worktree roots: the empty path and a one-component directory.
Roots == {<<>>, <<0>>}

\* PathBuf::push of a normal component
path_push(p, comp) == Append(p, comp)

\* PathBuf::pop: drops the last component, leaves a path without one alone.
path_pop(p) == IF p = <<>> THEN p ELSE SubSeq(p, 1, Len(p) - 1)

\* stack.rs 28-36: Stack::new(root); no call is in progress.
StackNew(r) ==
    /\ root = r
    /\ current = r
    /\ current_relative = <<>>
    /\ valid_components = 0
    /\ relative = <<>>
    /\ stack_pc = "idle"
    /\ components = <<>>
    /\ matching_components = 0
    /\ popped_items = 0
    /\ pushed_items = 0
    /\ returned = "None"
    /\ log = <<>>
    /\ inits = 0
    /\ calls = 0
    /\ relative_before = <<>>
    /\ valid_before = 0
    /\ push_directories = 0
    /\ pop_directories = 0
    /\ failures = 0
    /\ nested_requests = 0

\* stack.rs 57-67: the components the new path shares with the current one, from the
\* front.
RECURSIVE MatchingComponents(_, _)
MatchingComponents(existing, new) ==
    IF existing = <<>> \/ new = <<>> THEN 0
    ELSE IF Head(existing) = Head(new)
         THEN 1 + MatchingComponents(Tail(existing), Tail(new))
         ELSE 0

\* One call of a Delegate method, with the stack as the method sees it.
Callback(fn, is_last, cur, rel) ==
    [fn |-> fn, is_last_component |-> is_last, current |-> cur, current_relative |-> rel]

\* Faulty variant of notify_pop: every popped component is announced.
notify_pop_always(popped) == TRUE

\* stack.rs 72: `if popped_items > 0`
notify_pop(popped) == popped > 0

\* Faulty variant of notify_push: the first pushed component is announced as well.
notify_push_always(pushed) == TRUE

\* stack.rs 80: `if pushed_items > 0`
notify_push(pushed) == pushed > 0

\* Path a is a proper prefix of path b.
StrictPrefix(a, b) == Len(a) < Len(b) /\ a = SubSeq(b, 1, Len(a))

\* Faulty variant of is_last_component: no component is flagged.
is_last_component_never(rest) == FALSE

\* stack.rs 86: components.peek().is_none()
is_last_component(rest) == rest = <<>>

\* Faulty variant of Rollback: the count of valid components is kept.
RollbackKeepsCount(cur, rel, valid) ==
    [current |-> path_pop(cur), current_relative |-> path_pop(rel),
     valid_components |-> valid]

\* stack.rs 89-94: the component just pushed is taken back.
Rollback(cur, rel, valid) ==
    [current |-> path_pop(cur), current_relative |-> path_pop(rel),
     valid_components |-> valid - 1]

\* ------------------------------------------------------------- Init
Init ==
    /\ checksum \in Hashes
    /\ data_hash \in Hashes
    /\ fan \in SeqsOfLen(0..MaxFan, FanLen)
    /\ num_objects \in 0..MaxObjects
    /\ oids \in SeqsOfLen(Oids, num_objects)
    /\ pack_entries \in SeqsOfLen(PackEntries, num_objects)
    /\ num_indices \in 0..MaxPacks
    /\ should_interrupt = FALSE
    /\ pc = "checksum"
    /\ actual_index_checksum = 0
    /\ entry_index = 0
    /\ pack_ids_and_offsets = <<>>
    /\ pack_ids_slice = <<>>
    /\ total_objects_checked = 0
    /\ pack_id = 0
    /\ bundle = NoBundle
    /\ multi_index_entries_to_check = <<>>
    /\ pack_traverse_outcomes = <<>>
    /\ result = Running
    /\ trace = <<>>
    /\ bundles = <<>>
    /\ delegated = <<>>
    /\ StackNew(<<>>)

\* ------------------------------------------------------------- actions
Return(r) ==
    /\ result' = r
    /\ pc' = "done"

\* Faulty variant of VerifyChecksum: the fan is looked at before the checksum.
VerifyChecksumAfterFan ==
    /\ pc = "checksum"
    /\ trace' = Append(trace, Ev("checksum", -1, -1))
    /\ LET res == verify_checksum
       IN IF verify_fan(fan) /= -1
          THEN /\ Return(Err(Processor(Fan(verify_fan(fan)))))
               /\ UNCHANGED actual_index_checksum
          ELSE IF res.ok
          THEN /\ actual_index_checksum' = res.id
               /\ pc' = "fan"
               /\ UNCHANGED result
          ELSE /\ Return(Err(Processor(MultiIndexChecksum(res.err))))
               /\ UNCHANGED actual_index_checksum
    /\ UNCHANGED <<stack_vars, self_vars, should_interrupt, entry_index, pack_ids_and_offsets,
                   pack_ids_slice, total_objects_checked, pack_id, bundle,
                   multi_index_entries_to_check, pack_traverse_outcomes, bundles, delegated>>

\* verify.rs 92-98: the checksum of the multi-index itself.
VerifyChecksum ==
    /\ pc = "checksum"
    /\ trace' = Append(trace, Ev("checksum", -1, -1))
    /\ LET res == verify_checksum
       IN IF res.ok
          THEN /\ actual_index_checksum' = res.id
               /\ pc' = "fan"
               /\ UNCHANGED result
          ELSE /\ Return(Err(Processor(MultiIndexChecksum(res.err))))
               /\ UNCHANGED actual_index_checksum
    /\ UNCHANGED <<stack_vars, self_vars, should_interrupt, entry_index, pack_ids_and_offsets,
                   pack_ids_slice, total_objects_checked, pack_id, bundle,
                   multi_index_entries_to_check, pack_traverse_outcomes, bundles, delegated>>

\* Faulty variant of CheckFan: the emptiness check comes first.
CheckFanAfterEmpty ==
    /\ pc = "fan"
    /\ trace' = Append(trace, Ev("fan", -1, -1))
    /\ LET first_invalid == verify_fan(fan)
       IN IF num_objects = 0
          THEN Return(Err(Processor(Empty)))
          ELSE IF first_invalid /= -1
          THEN Return(Err(Processor(Fan(first_invalid))))
          ELSE /\ pc' = "empty"
               /\ UNCHANGED result
    /\ UNCHANGED <<stack_vars, self_vars, should_interrupt, local_vars, bundles, delegated>>

\* verify.rs 100-104
CheckFan ==
    /\ pc = "fan"
    /\ trace' = Append(trace, Ev("fan", -1, -1))
    /\ LET first_invalid == verify_fan(fan)
       IN IF first_invalid /= -1
          THEN Return(Err(Processor(Fan(first_invalid))))
          ELSE /\ pc' = "empty"
               /\ UNCHANGED result
    /\ UNCHANGED <<stack_vars, self_vars, should_interrupt, local_vars, bundles, delegated>>

\* Faulty variant of CheckEmpty: a file with packs but no objects passes.
CheckEmptyNoPacksOnly ==
    /\ pc = "empty"
    /\ trace' = Append(trace, Ev("empty", -1, -1))
    /\ IF num_objects = 0 /\ num_indices = 0
       THEN Return(Err(Processor(Empty)))
       ELSE /\ pc' = "order"
            /\ UNCHANGED result
    /\ UNCHANGED <<stack_vars, self_vars, should_interrupt, local_vars, bundles, delegated>>

\* verify.rs 106-108
CheckEmpty ==
    /\ pc = "empty"
    /\ trace' = Append(trace, Ev("empty", -1, -1))
    /\ IF num_objects = 0
       THEN Return(Err(Processor(Empty)))
       ELSE /\ pc' = "order"
            /\ UNCHANGED result
    /\ UNCHANGED <<stack_vars, self_vars, should_interrupt, local_vars, bundles, delegated>>

\* verify.rs 129-141: one iteration of the pairwise order loop.
CheckOrder ==
    /\ pc = "order"
    /\ entry_index < num_objects - 1
    /\ trace' = Append(trace, Ev("order", -1, entry_index))
    /\ LET lhs == oid_at_index(entry_index)
           rhs == oid_at_index(entry_index + 1)
       IN IF out_of_order(lhs, rhs)
          THEN /\ Return(Err(Processor(OutOfOrder(entry_index))))
               /\ UNCHANGED <<pack_ids_and_offsets, entry_index>>
          ELSE /\ pack_ids_and_offsets' =
                      Append(pack_ids_and_offsets,
                             <<pack_id_and_pack_offset_at_index(entry_index).pack_id, entry_index>>)
               /\ entry_index' = entry_index + 1
               /\ UNCHANGED <<pc, result>>
    /\ UNCHANGED <<stack_vars, self_vars, should_interrupt, actual_index_checksum, pack_ids_slice,
                   total_objects_checked, pack_id, bundle, multi_index_entries_to_check,
                   pack_traverse_outcomes, bundles, delegated>>

\* Faulty variant of SortByPack: the pair of the last entry is not recorded.
SortByPackWithoutLast ==
    /\ pc = "order"
    /\ entry_index >= num_objects - 1
    /\ pack_ids_and_offsets' = sort_by_pack_id(pack_ids_and_offsets)
    /\ pack_ids_slice' = sort_by_pack_id(pack_ids_and_offsets)
    /\ pack_id' = 0
    /\ pc' = "packs"
    /\ trace' = Append(trace, Ev("sort", -1, -1))
    /\ UNCHANGED <<stack_vars, self_vars, should_interrupt, actual_index_checksum, entry_index,
                   total_objects_checked, bundle, multi_index_entries_to_check,
                   pack_traverse_outcomes, result, bundles, delegated>>

\* verify.rs 142-154: the last entry is recorded, the pairs are sorted by pack id.
SortByPack ==
    /\ pc = "order"
    /\ entry_index >= num_objects - 1
    /\ LET last == num_objects - 1
           all == Append(pack_ids_and_offsets,
                         <<pack_id_and_pack_offset_at_index(last).pack_id, last>>)
       IN /\ pack_ids_and_offsets' = sort_by_pack_id(all)
          /\ pack_ids_slice' = sort_by_pack_id(all)
    /\ pack_id' = 0
    /\ pc' = "packs"
    /\ trace' = Append(trace, Ev("sort", -1, -1))
    /\ UNCHANGED <<stack_vars, self_vars, should_interrupt, actual_index_checksum, entry_index,
                   total_objects_checked, bundle, multi_index_entries_to_check,
                   pack_traverse_outcomes, result, bundles, delegated>>

\* Faulty variant of OpenBundle: a pack without entries is passed over unopened.
OpenBundleSkipEmpty ==
    /\ pc = "packs"
    /\ pack_id < num_indices
    /\ IF partition_point(pack_ids_slice, pack_id) = 0
       THEN /\ pack_id' = pack_id + 1
            /\ pack_traverse_outcomes' = push_outcome(pack_traverse_outcomes, 1)
            /\ UNCHANGED <<trace, bundles, bundle, multi_index_entries_to_check,
                           pack_ids_slice, pc, result>>
       ELSE /\ trace' = Append(trace, Ev("open", pack_id, -1))
            /\ UNCHANGED <<pack_id, pack_traverse_outcomes>>
            /\ \E b \in DiskBundles :
                /\ bundles' = Append(bundles, b)
                /\ IF ~b.ok
                   THEN /\ Return(Err(Processor(BundleInit(pack_id))))
                        /\ UNCHANGED <<bundle, multi_index_entries_to_check, pack_ids_slice>>
                   ELSE LET slice_end == partition_point(pack_ids_slice, pack_id)
                        IN /\ bundle' = b
                           /\ multi_index_entries_to_check' = SubSeq(pack_ids_slice, 1, slice_end)
                           /\ pack_ids_slice' =
                                  SubSeq(pack_ids_slice, slice_end + 1, Len(pack_ids_slice))
                           /\ pc' = "entries"
                           /\ UNCHANGED result
    /\ entry_index' = 0
    /\ UNCHANGED <<stack_vars, self_vars, should_interrupt, actual_index_checksum, pack_ids_and_offsets,
                   total_objects_checked, delegated>>

\* verify.rs 155-163: the next pack is opened and its entries are sliced off.
OpenBundle ==
    /\ pc = "packs"
    /\ pack_id < num_indices
    /\ trace' = Append(trace, Ev("open", pack_id, -1))
    /\ \E b \in DiskBundles :
        /\ bundles' = Append(bundles, b)
        /\ IF ~b.ok
           THEN /\ Return(Err(Processor(BundleInit(pack_id))))
                /\ UNCHANGED <<bundle, multi_index_entries_to_check, pack_ids_slice>>
           ELSE LET slice_end == partition_point(pack_ids_slice, pack_id)
                IN /\ bundle' = b
                   /\ multi_index_entries_to_check' = SubSeq(pack_ids_slice, 1, slice_end)
                   /\ pack_ids_slice' = SubSeq(pack_ids_slice, slice_end + 1, Len(pack_ids_slice))
                   /\ pc' = "entries"
                   /\ UNCHANGED result
    /\ entry_index' = 0
    /\ UNCHANGED <<stack_vars, self_vars, should_interrupt, actual_index_checksum, pack_ids_and_offsets,
                   total_objects_checked, pack_id, pack_traverse_outcomes, delegated>>

\* verify.rs 165-182: one entry of the open pack is looked up in the pack's own index.
\* entry_index counts the entries of multi_index_entries_to_check already taken.
CheckEntry ==
    /\ pc = "entries"
    /\ entry_index < Len(multi_index_entries_to_check)
    /\ LET entry_id == multi_index_entries_to_check[entry_index + 1][2]
           err == check_entry(bundle, entry_id)
       IN /\ trace' = Append(trace, Ev("lookup", pack_id, entry_id))
          /\ IF err /= NoError
             THEN /\ Return(Err(Processor(err)))
                  /\ UNCHANGED entry_index
             ELSE /\ entry_index' = entry_index + 1
                  /\ UNCHANGED <<pc, result>>
    /\ UNCHANGED <<stack_vars, self_vars, should_interrupt, actual_index_checksum, pack_ids_and_offsets,
                   pack_ids_slice, total_objects_checked, pack_id, bundle,
                   multi_index_entries_to_check, pack_traverse_outcomes, bundles, delegated>>

\* verify.rs 184-235: the entries are counted and the pack is handed to the
\* single-pack verifier; its error is remapped, its outcome is kept.
DelegateVerify ==
    /\ pc = "entries"
    /\ entry_index >= Len(multi_index_entries_to_check)
    /\ total_objects_checked' = total_objects_checked + Len(multi_index_entries_to_check)
    /\ trace' = Append(trace, Ev("delegate", pack_id, -1))
    /\ \E res \in DelegatedResults :
        /\ delegated' = Append(delegated, res)
        /\ IF ~res.ok
           THEN /\ Return(Err(RemapDelegatedError(res.err)))
                /\ UNCHANGED <<pack_traverse_outcomes, pack_id>>
           ELSE /\ pack_traverse_outcomes' = push_outcome(pack_traverse_outcomes, res.pack_traverse_outcome)
                /\ pack_id' = pack_id + 1
                /\ pc' = "packs"
                /\ UNCHANGED result
    /\ UNCHANGED <<stack_vars, self_vars, should_interrupt, actual_index_checksum, entry_index,
                   pack_ids_and_offsets, pack_ids_slice, bundle, multi_index_entries_to_check,
                   bundles>>

\* verify.rs 237-248: the count is asserted and the outcome is returned.
Finish ==
    /\ pc = "packs"
    /\ pack_id >= num_indices
    /\ trace' = Append(trace, Ev("assert", -1, -1))
    /\ IF num_objects /= total_objects_checked
       THEN Return(Panicked)
       ELSE Return(Ok(actual_index_checksum, pack_traverse_outcomes))
    /\ UNCHANGED <<stack_vars, self_vars, should_interrupt, local_vars, bundles, delegated>>

\* Another thread sets the flag the caller shares with the verifier.
Interrupt ==
    /\ pc /= "done"
    /\ ~should_interrupt
    /\ should_interrupt' = TRUE
    /\ trace' = Append(trace, Ev("interrupt", -1, -1))
    /\ UNCHANGED <<stack_vars, self_vars, pc, local_vars, result, bundles, delegated>>

Next ==
    \/ VerifyChecksum
    \/ CheckFan
    \/ CheckEmpty
    \/ CheckOrder
    \/ SortByPack
    \/ OpenBundle
    \/ CheckEntry
    \/ DelegateVerify
    \/ Finish
    \/ Interrupt

Spec == Init /\ [][Next]_vars

\* ------------------------------------------------------------- stack actions
\* No verification is running: an empty multi-index that nothing reads.
VerifyIdle ==
    /\ checksum = 1
    /\ data_hash = 1
    /\ fan = [i \in 1..FanLen |-> 0]
    /\ num_objects = 0
    /\ oids = <<>>
    /\ pack_entries = <<>>
    /\ num_indices = 0
    /\ should_interrupt = FALSE
    /\ pc = "checksum"
    /\ actual_index_checksum = 0
    /\ entry_index = 0
    /\ pack_ids_and_offsets = <<>>
    /\ pack_ids_slice = <<>>
    /\ total_objects_checked = 0
    /\ pack_id = 0
    /\ bundle = NoBundle
    /\ multi_index_entries_to_check = <<>>
    /\ pack_traverse_outcomes = <<>>
    /\ result = Running
    /\ trace = <<>>
    /\ bundles = <<>>
    /\ delegated = <<>>

InitStack ==
    /\ VerifyIdle
    /\ \E r \in Roots : StackNew(r)

\* stack.rs 42-67: the call begins; the delegate is initialised while no component is
\* valid; the common prefix with the current path is skipped.
Begin ==
    /\ stack_pc = "idle"
    /\ calls < MaxCalls
    /\ \E rel \in Paths, init_ok \in BOOLEAN :
        /\ relative' = rel
        /\ IF valid_components = 0
           THEN /\ log' = <<Callback("init", FALSE, current, current_relative)>>
                /\ inits' = inits + 1
           ELSE /\ log' = <<>>
                /\ UNCHANGED inits
        /\ nested_requests' =
              IF calls > 0 /\ (StrictPrefix(rel, relative) \/ StrictPrefix(relative, rel))
              THEN nested_requests + 1
              ELSE nested_requests
        /\ IF valid_components = 0 /\ ~init_ok
           THEN /\ returned' = "Err"
                /\ failures' = failures + 1
                /\ UNCHANGED <<stack_pc, components, matching_components, popped_items>>
           ELSE LET matching == MatchingComponents(current_relative, rel)
                IN /\ matching_components' = matching
                   /\ components' = SubSeq(rel, matching + 1, Len(rel))
                   /\ popped_items' = 0
                   /\ stack_pc' = "pop"
                   /\ returned' = "None"
                   /\ UNCHANGED failures
    /\ calls' = calls + 1
    /\ relative_before' = current_relative
    /\ valid_before' = valid_components
    /\ UNCHANGED <<verify_vars, stack_fields, pushed_items, push_directories,
                   pop_directories>>

\* stack.rs 69-75: one iteration of the pop loop.
Pop ==
    /\ stack_pc = "pop"
    /\ popped_items < valid_components - matching_components
    /\ current' = path_pop(current)
    /\ current_relative' = path_pop(current_relative)
    /\ log' = IF notify_pop(popped_items)
              THEN Append(log, Callback("pop_directory", FALSE, path_pop(current),
                                        path_pop(current_relative)))
              ELSE log
    /\ pop_directories' = IF notify_pop(popped_items)
                          THEN pop_directories + 1
                          ELSE pop_directories
    /\ popped_items' = popped_items + 1
    /\ UNCHANGED <<verify_vars, root, valid_components, relative, stack_pc, components,
                   matching_components, pushed_items, returned, inits, calls,
                   relative_before, valid_before, push_directories, failures,
                   nested_requests>>

\* stack.rs 76-78: the pop loop is over.
EndPop ==
    /\ stack_pc = "pop"
    /\ popped_items >= valid_components - matching_components
    /\ valid_components' = matching_components
    /\ pushed_items' = 0
    /\ stack_pc' = "push"
    /\ UNCHANGED <<verify_vars, root, current, current_relative, relative, components,
                   matching_components, popped_items, returned, stack_hist>>

\* stack.rs 79-95: one iteration of the push loop.
Push ==
    /\ stack_pc = "push"
    /\ components /= <<>>
    /\ \E dir_ok, push_ok \in BOOLEAN :
        LET comp == Head(components)
            rest == Tail(components)
            entered == notify_push(pushed_items)
            log_dir == IF entered
                       THEN Append(log, Callback("push_directory", FALSE, current,
                                                 current_relative))
                       ELSE log
            cur == path_push(current, comp)
            rel == path_push(current_relative, comp)
            back == Rollback(cur, rel, valid_components + 1)
        IN /\ components' = rest
           /\ push_directories' = IF entered THEN push_directories + 1 ELSE push_directories
           /\ IF entered /\ ~dir_ok
              THEN /\ log' = log_dir
                   /\ failures' = failures + 1
                   /\ returned' = "Err"
                   /\ stack_pc' = "idle"
                   /\ UNCHANGED <<current, current_relative, valid_components, pushed_items>>
              ELSE /\ log' = Append(log_dir, Callback("push", is_last_component(rest), cur, rel))
                   /\ pushed_items' = pushed_items + 1
                   /\ IF push_ok
                      THEN /\ current' = cur
                           /\ current_relative' = rel
                           /\ valid_components' = valid_components + 1
                           /\ UNCHANGED <<stack_pc, returned, failures>>
                      ELSE /\ current' = back.current
                           /\ current_relative' = back.current_relative
                           /\ valid_components' = back.valid_components
                           /\ failures' = failures + 1
                           /\ returned' = "Err"
                           /\ stack_pc' = "idle"
    /\ UNCHANGED <<verify_vars, root, relative, matching_components, popped_items, inits,
                   calls, relative_before, valid_before, pop_directories, nested_requests>>

\* stack.rs 96: Ok(())
ReturnOk ==
    /\ stack_pc = "push"
    /\ components = <<>>
    /\ returned' = "Ok"
    /\ stack_pc' = "idle"
    /\ UNCHANGED <<verify_vars, stack_fields, relative, components, matching_components,
                   popped_items, pushed_items, stack_hist>>

NextStack ==
    \/ Begin
    \/ Pop
    \/ EndPop
    \/ Push
    \/ ReturnOk

SpecStack == InitStack /\ [][NextStack]_vars


\* ------------------------------------------------------------- properties
IsErr == result.status = "Err"

IsProcessor(kind) ==
    /\ IsErr
    /\ result.error.variant = "Processor"
    /\ result.error.err.kind = kind

\* verify_checksum returned Ok: the recomputed checksum was kept.
ChecksumPassed == actual_index_checksum /= 0

OnlyEvents(S) == \A i \in DOMAIN trace : trace[i].ev \in S

NoEvents(S) == \A i \in DOMAIN trace : trace[i].ev \notin S

FanOk == \A k \in 1..(Len(fan) - 1) : fan[k] <= fan[k + 1]

TableAscending == \A i \in 1..(num_objects - 1) : oids[i] < oids[i + 1]

Has(index, id) == \E k \in DOMAIN index : index[k].oid = id

OffsetOf(index, id) == index[CHOOSE k \in DOMAIN index : index[k].oid = id].offset

\* C1: the checksum of the multi-index is verified before any other check; when the
\* recomputed checksum differs from the stored one the call fails with
\* MultiIndexChecksum and nothing else has happened: no fan, emptiness or order check,
\* no pack opened, no lookup, no delegated verification.
C1_ChecksumFirst ==
    /\ \A i \in DOMAIN trace :
          trace[i].ev \notin {"checksum", "interrupt"}
              => /\ \E j \in 1..(i - 1) : trace[j].ev = "checksum"
                 /\ data_hash = checksum
    /\ (pc /= "checksum" /\ data_hash /= checksum)
          => /\ pc = "done"
             /\ IsProcessor("MultiIndexChecksum")
             /\ OnlyEvents({"checksum", "interrupt"})
             /\ bundles = <<>>
             /\ delegated = <<>>

\* C1 witness: a file with a wrong checksum, a decreasing fan and no objects was
\* refused for its checksum.
C1_Witness ==
    /\ pc = "done"
    /\ data_hash /= checksum
    /\ ~FanOk
    /\ num_objects = 0
    /\ IsProcessor("MultiIndexChecksum")
    /\ result.error.err.source = ChecksumMismatch(checksum, data_hash)

\* The entry's object id is in the index of the pack its pack_id names, at the
\* recorded offset.
EntryMatches(i) ==
    LET e == pack_entries[i]
    IN /\ e.pack_id + 1 \in DOMAIN bundles
       /\ bundles[e.pack_id + 1].ok
       /\ Has(bundles[e.pack_id + 1].index, oids[i])
       /\ OffsetOf(bundles[e.pack_id + 1].index, oids[i]) = e.pack_offset

AllHold ==
    /\ data_hash = checksum
    /\ FanOk
    /\ num_objects > 0
    /\ TableAscending
    /\ Len(bundles) = num_indices
    /\ \A p \in DOMAIN bundles : bundles[p].ok
    /\ \A i \in 1..num_objects : EntryMatches(i)
    /\ Len(delegated) = num_indices
    /\ \A p \in DOMAIN delegated : delegated[p].ok

\* One of the conditions is violated by what was read from the file and the packs.
SomeViolation ==
    \/ data_hash /= checksum
    \/ ~FanOk
    \/ num_objects = 0
    \/ ~TableAscending
    \/ \E p \in DOMAIN bundles : ~bundles[p].ok
    \/ \E i \in 1..num_objects :
          \/ pack_entries[i].pack_id >= num_indices
          \/ /\ pack_entries[i].pack_id + 1 \in DOMAIN bundles
             /\ bundles[pack_entries[i].pack_id + 1].ok
             /\ ~EntryMatches(i)
    \/ \E p \in DOMAIN delegated : ~delegated[p].ok

\* C2: without cancellation, verify_integrity returns Ok exactly when the checksum
\* matches, the fan is non-decreasing, num_objects > 0, the object ids are strictly
\* ascending, every pack opens, every entry is found in its pack at its recorded
\* offset and every delegated verification succeeds; every other result has one of
\* these conditions violated; the checksum returned is the recomputed one.
C2_OkExactlyWhenAllHold ==
    (pc = "done" /\ ~should_interrupt)
        => /\ (result.status = "Ok") <=> AllHold
           /\ (result.status /= "Ok") => SomeViolation
           /\ (result.status = "Ok") => result.actual_index_checksum = data_hash

\* C2 witness: Ok for two packs, the first table entry in the second pack.
C2_Witness ==
    /\ pc = "done"
    /\ ~should_interrupt
    /\ result.status = "Ok"
    /\ num_indices = 2
    /\ num_objects = 2
    /\ pack_entries[1].pack_id = 1
    /\ pack_entries[2].pack_id = 0

FirstOutOfOrder ==
    CHOOSE i \in 0..(num_objects - 2) :
        /\ oids[i + 2] <= oids[i + 1]
        /\ \A j \in 0..(i - 1) : oids[j + 2] > oids[j + 1]

\* C3: once the checksum, the fan and the emptiness check passed, a table that is not
\* strictly ascending makes the call fail with OutOfOrder at the smallest index i
\* with table[i+1] <= table[i], before any pack is opened.
C3_OutOfOrderFirstIndex ==
    (ChecksumPassed /\ FanOk /\ num_objects > 0 /\ ~TableAscending)
        => /\ pc = "order" => (entry_index <= FirstOutOfOrder /\ result = Running)
           /\ pc \notin {"fan", "empty", "order"}
                 => /\ pc = "done"
                    /\ result = Err(Processor(OutOfOrder(FirstOutOfOrder)))
                    /\ bundles = <<>>
                    /\ NoEvents({"sort", "open", "lookup", "delegate", "assert"})

\* C3 witness: two equal ids after an ascending pair are reported at index 1.
C3_Witness ==
    /\ pc = "done"
    /\ num_objects = 3
    /\ oids[2] = oids[3]
    /\ result = Err(Processor(OutOfOrder(1)))

LastCheck(k) == \A j \in (k + 1)..Len(trace) : trace[j].ev = "interrupt"

\* C4: an entry that is looked up and found in its pack's index at another offset
\* than the recorded one ends the call with PackOffsetMismatch carrying the object
\* id, the recorded offset as expected and the pack index's offset as actual.
C4_PackOffsetMismatch ==
    \A k \in DOMAIN trace :
        trace[k].ev = "lookup"
            => LET i == trace[k].entry + 1
                   p == pack_entries[i].pack_id + 1
               IN (/\ p \in DOMAIN bundles
                   /\ Has(bundles[p].index, oids[i])
                   /\ OffsetOf(bundles[p].index, oids[i]) /= pack_entries[i].pack_offset)
                  => /\ pc = "done"
                     /\ result = Err(Processor(PackOffsetMismatch(
                                      oids[i], pack_entries[i].pack_offset,
                                      OffsetOf(bundles[p].index, oids[i]))))
                     /\ LastCheck(k)

\* C4 witness: a mismatch reported for the second entry of the second pack.
C4_Witness ==
    /\ pc = "done"
    /\ IsProcessor("PackOffsetMismatch")
    /\ result.error.err.expected_pack_offset /= result.error.err.actual_pack_offset
    /\ pack_id = 1
    /\ entry_index = 1

\* C5: every lookup is made in the pack the entry's pack_id names; an entry whose
\* object id is not in that pack's index ends the call with OidNotFound for that id.
C5_OidNotFound ==
    \A k \in DOMAIN trace :
        trace[k].ev = "lookup"
            => LET i == trace[k].entry + 1
                   p == trace[k].pack + 1
               IN /\ trace[k].pack = pack_entries[i].pack_id
                  /\ p \in DOMAIN bundles
                  /\ ~Has(bundles[p].index, oids[i])
                        => /\ pc = "done"
                           /\ result = Err(Processor(OidNotFound(oids[i])))
                           /\ LastCheck(k)

\* C5 witness: OidNotFound although another pack, opened before, holds the object.
C5_Witness ==
    /\ pc = "done"
    /\ IsProcessor("OidNotFound")
    /\ pack_id = 1
    /\ Has(bundles[1].index, result.error.err.id)
    /\ ~Has(bundles[2].index, result.error.err.id)

FirstFan ==
    CHOOSE k \in 0..(Len(fan) - 2) :
        /\ fan[k + 1] > fan[k + 2]
        /\ \A j \in 0..(k - 1) : fan[j + 1] <= fan[j + 2]

\* C6: once the checksum passed, a fan with fan[k] > fan[k+1] for some k makes the
\* call fail with Fan at the first such k, whatever num_objects and the tables hold.
C6_FanFirst ==
    (ChecksumPassed /\ ~FanOk /\ pc /= "fan")
        => /\ pc = "done"
           /\ result = Err(Processor(Fan(FirstFan)))
           /\ OnlyEvents({"checksum", "fan", "interrupt"})

\* C6 witness: a fan that decreases twice, in a file without objects, is reported at
\* its first decrease.
C6_Witness ==
    /\ pc = "done"
    /\ fan = <<0, 1, 0, 1>> \/ fan = <<1, 0, 1, 0>>
    /\ num_objects = 0
    /\ IsProcessor("Fan")
    /\ result.error.err.index = FirstFan

\* C7: once the checksum and the fan passed, num_objects = 0 makes the call fail with
\* Empty and nothing else runs: no object id is read, no pack is opened, no delegated
\* verification is started.
C7_EmptyStops ==
    (ChecksumPassed /\ FanOk /\ num_objects = 0 /\ pc \notin {"fan", "empty"})
        => /\ pc = "done"
           /\ result = Err(Processor(Empty))
           /\ OnlyEvents({"checksum", "fan", "empty", "interrupt"})
           /\ pack_ids_and_offsets = <<>>
           /\ bundles = <<>>
           /\ delegated = <<>>

\* C7 witness: Empty for a file that names packs.
C7_Witness ==
    /\ pc = "done"
    /\ num_indices = 2
    /\ result = Err(Processor(Empty))

\* C8: whenever the per-pack loop completes without an error, the entries checked
\* over all packs are num_objects, so the final assertion never fails, for every
\* assignment of pack_id values to entries.
C8_TotalCountLaw ==
    (\E k \in DOMAIN trace : trace[k].ev = "assert")
        => /\ total_objects_checked = num_objects
           /\ result.status /= "Panic"

\* The interrupt event at position k came while a pack was open and its entries were
\* being looked up.
DuringEntries(k) ==
    /\ trace[k].ev = "interrupt"
    /\ k > 1
    /\ trace[k - 1].ev \in {"open", "lookup"}

\* C9: when the flag is set during the per-pack loop, the call ends with Interrupted,
\* no further entry is looked up and no later pack is opened.
C9_InterruptStopsPackLoop ==
    \A k \in DOMAIN trace :
        DuringEntries(k)
            => /\ \A j \in (k + 1)..Len(trace) : trace[j].ev \notin {"lookup", "open"}
               /\ pc = "done" => result = Err(Interrupted)

\* The result is a cancellation, at the top level or inside a Processor error.
CarriesCancellation ==
    /\ IsErr
    /\ \/ result.error = Interrupted
       \/ /\ IsProcessor("MultiIndexChecksum")
          /\ result.error.err.source = ChecksumInterrupted

\* C10: a cancellation is always returned as the top-level Interrupted variant, never
\* inside Processor, whether it was observed by the checksum pass or by a delegated
\* verification.
C10_CancellationUnwrapped ==
    (pc = "done" /\ CarriesCancellation) => result = Err(Interrupted)

\* The remapping of a delegated error as the claim states it.
ExpectedRemap(e) ==
    IF e.variant = "Processor"
    THEN [variant |-> "Processor", err |-> [kind |-> "IndexIntegrity", source |-> e.data]]
    ELSE e

\* C11: when a delegated verification fails with Processor(e) the call returns
\* Processor(IndexIntegrity(e)); with any other variant it returns the same variant
\* with the same field values; and no delegated error of another variant would have
\* been returned as the variant that was returned.
C11_RemapDelegatedError ==
    (pc = "done" /\ delegated /= <<>> /\ ~delegated[Len(delegated)].ok)
        => LET e == delegated[Len(delegated)].err
           IN /\ result = Err(ExpectedRemap(e))
              /\ \A other \in DelegatedErrors :
                    RemapDelegatedError(other).variant = result.error.variant
                        => other.variant = e.variant

\* C11 witness: the second pack's verifier reported PackObjectMismatch with payload 2
\* and the call returned it unchanged.
C11_Witness ==
    /\ pc = "done"
    /\ Len(delegated) = 2
    /\ ~delegated[2].ok
    /\ delegated[2].err = [variant |-> "PackObjectMismatch", data |-> 2]
    /\ result = Err([variant |-> "PackObjectMismatch", data |-> 2])

EventsOf(what) == SelectSeq(trace, LAMBDA e : e.ev = what)

\* The packs of the events of one kind, in the order of the events.
PacksOf(what) == [k \in DOMAIN EventsOf(what) |-> EventsOf(what)[k].pack]

\* C12: packs are opened at most once each, in ascending pack_id order from 0; in a
\* run that returns Ok every pack of index_names was opened once and handed to the
\* single-pack verifier once, also a pack without entries; a pack that cannot be
\* opened ends the run with BundleInit, also when no entry is attributed to it.
C12_PacksOpenedOnceInOrder ==
    /\ PacksOf("open") = [k \in 1..Len(bundles) |-> k - 1]
    /\ Len(bundles) <= num_indices
    /\ PacksOf("delegate") = [k \in 1..Len(delegated) |-> k - 1]
    /\ Len(delegated) <= Len(bundles)
    /\ result.status = "Ok"
          => /\ Len(bundles) = num_indices
             /\ Len(delegated) = num_indices
    /\ (bundles /= <<>> /\ ~bundles[Len(bundles)].ok)
          => /\ pc = "done"
             /\ result = Err(Processor(BundleInit(Len(bundles) - 1)))

\* C12 witness: Ok with two packs, every entry in the first one.
C12_Witness ==
    /\ result.status = "Ok"
    /\ num_indices = 2
    /\ \A i \in 1..num_objects : pack_entries[i].pack_id = 0
    /\ PacksOf("open") = <<0, 1>>
    /\ PacksOf("delegate") = <<0, 1>>

\* C13: an Ok result carries one traversal outcome per name of index_names, the one
\* at position i being the outcome of the delegated verification of pack i; an error
\* carries no outcomes.
C13_OutcomesAligned ==
    /\ result.status = "Ok"
          => /\ Len(result.pack_traverse_outcomes) = num_indices
             /\ Len(delegated) = num_indices
             /\ \A p \in 1..num_indices :
                   /\ delegated[p].ok
                   /\ result.pack_traverse_outcomes[p] = delegated[p].pack_traverse_outcome
    /\ result.status \in {"Err", "Panic"}
          => "pack_traverse_outcomes" \notin DOMAIN result

\* C13 witness: Ok with two packs whose outcomes differ.
C13_Witness ==
    /\ result.status = "Ok"
    /\ result.pack_traverse_outcomes = <<2, 1>>

\* C14: when the entries checked over all packs differ from num_objects, the caller
\* gets the error UnexpectedObjectCount with the actual and the expected count, and
\* the process is not aborted.
C14_CountMismatchIsAnError ==
    ((\E k \in DOMAIN trace : trace[k].ev = "assert")
        /\ total_objects_checked /= num_objects)
        => result = Err(Processor(UnexpectedObjectCount(total_objects_checked, num_objects)))

\* The steps of the verifier taken so far, in the order they were taken.
Checks == SelectSeq(trace, LAMBDA e : e.ev /= "interrupt")

\* The lookups of the entries of pack p among the first n table entries, ascending by
\* entry index.
RECURSIVE LookupsOfPack(_, _)
LookupsOfPack(p, n) ==
    IF n = 0 THEN <<>>
    ELSE LookupsOfPack(p, n - 1)
            \o (IF pack_entries[n].pack_id = p THEN <<Ev("lookup", p, n - 1)>> ELSE <<>>)

\* Opening, lookups and delegated verification of the packs 0..k-1.
RECURSIVE PackChecks(_)
PackChecks(k) ==
    IF k = 0 THEN <<>>
    ELSE PackChecks(k - 1) \o <<Ev("open", k - 1, -1)>>
            \o LookupsOfPack(k - 1, num_objects) \o <<Ev("delegate", k - 1, -1)>>

\* The fixed order of the checks of one call, for the file at hand.
FixedOrder ==
    <<Ev("checksum", -1, -1), Ev("fan", -1, -1), Ev("empty", -1, -1)>>
        \o [i \in 1..(num_objects - 1) |-> Ev("order", -1, i - 1)]
        \o <<Ev("sort", -1, -1)>>
        \o PackChecks(num_indices)
        \o <<Ev("assert", -1, -1)>>

\* Step e found nothing wrong, judged by what was read from the file and the packs.
Passed(e) ==
    CASE e.ev = "checksum" -> ChecksumPassed
      [] e.ev = "fan" -> FanOk
      [] e.ev = "empty" -> num_objects > 0
      [] e.ev = "order" -> oids[e.entry + 1] < oids[e.entry + 2]
      [] e.ev = "sort" -> TRUE
      [] e.ev = "open" -> bundles[e.pack + 1].ok
      [] e.ev = "lookup" -> EntryMatches(e.entry + 1)
      [] e.ev = "delegate" -> delegated[e.pack + 1].ok
      [] e.ev = "assert" -> total_objects_checked = num_objects

\* The error returned is the one of check e.
Reports(e) ==
    CASE e.ev = "checksum" -> IsProcessor("MultiIndexChecksum")
      [] e.ev = "fan" -> IsProcessor("Fan")
      [] e.ev = "empty" -> IsProcessor("Empty")
      [] e.ev = "order" -> result = Err(Processor(OutOfOrder(e.entry)))
      [] e.ev = "sort" -> FALSE
      [] e.ev = "open" -> result = Err(Processor(BundleInit(e.pack)))
      [] e.ev = "lookup" ->
            /\ IsProcessor("PackOffsetMismatch") \/ IsProcessor("OidNotFound")
            /\ result.error.err.id = oids[e.entry + 1]
      [] e.ev = "delegate" -> result = Err(ExpectedRemap(delegated[e.pack + 1].err))
      [] e.ev = "assert" -> FALSE

\* C16: the checks run in the fixed order checksum, fan, emptiness, pairwise order,
\* then per pack in ascending pack order: open, its entries in ascending entry-index
\* order, delegated verification; the error returned is that of the first check that
\* fails, every check before it passed, and no check runs after it.
C16_EarliestFailingCheck ==
    LET n == Len(Checks)
    IN /\ n <= Len(FixedOrder)
       /\ Checks = SubSeq(FixedOrder, 1, n)
       /\ \A k \in 1..(n - 1) : Passed(Checks[k])
       /\ result = Running => (n = 0 \/ Passed(Checks[n]))
       /\ result.status = "Err"
             => /\ n > 0
                /\ ~Passed(Checks[n])
                /\ Reports(Checks[n])
       /\ result.status = "Ok"
             => /\ Checks = FixedOrder
                /\ Passed(Checks[n])

\* C16 witness: the first of two entries of pack 0 is found, the second is not, and
\* the call ends there although a second pack is still to be opened.
C16_Witness ==
    /\ num_objects = 2
    /\ num_indices = 2
    /\ pack_entries[1].pack_id = 0
    /\ pack_entries[2].pack_id = 0
    /\ pc = "done"
    /\ Len(Checks) = 8
    /\ Checks[7] = Ev("lookup", 0, 0)
    /\ Checks[8] = Ev("lookup", 0, 1)
    /\ result = Err(Processor(OidNotFound(oids[2])))

\* C20: the order pass records exactly one (pack_id, entry_index) pair for every
\* entry index 0..num_objects-1, the last one included; with a single entry no two
\* ids are compared and OutOfOrder is not returned, yet the entry is looked up in its
\* pack before that pack is verified; the order loop is not reached with no objects.
C20_OnePairPerEntry ==
    /\ (\E k \in DOMAIN trace : trace[k].ev = "sort")
          => /\ Len(pack_ids_and_offsets) = num_objects
             /\ \A i \in 0..(num_objects - 1) :
                   \E k \in DOMAIN pack_ids_and_offsets :
                      pack_ids_and_offsets[k] = <<pack_entries[i + 1].pack_id, i>>
    /\ num_objects = 1
          => /\ NoEvents({"order"})
             /\ ~IsProcessor("OutOfOrder")
             /\ \A k \in DOMAIN trace :
                   (trace[k].ev = "delegate" /\ trace[k].pack = pack_entries[1].pack_id)
                       => \E j \in 1..(k - 1) :
                             trace[j] = Ev("lookup", pack_entries[1].pack_id, 0)
    /\ (pc = "order" \/ ~NoEvents({"order", "sort"})) => num_objects >= 1

\* C20 witness: the only entry of the table is found at another offset in its pack.
C20_Witness ==
    /\ num_objects = 1
    /\ pc = "done"
    /\ IsProcessor("PackOffsetMismatch")
    /\ pack_ids_and_offsets = <<<<pack_entries[1].pack_id, 0>>>>

\* The callbacks of one kind during the latest call, in call order.
LogOf(fn) == SelectSeq(log, LAMBDA c : c.fn = fn)

Last(p) == p[Len(p)]

\* Length of the longest common prefix of two paths.
CommonPrefixLen(a, b) ==
    CHOOSE k \in 0..Len(a) :
        /\ k <= Len(b)
        /\ SubSeq(a, 1, k) = SubSeq(b, 1, k)
        /\ k = Len(a) \/ k = Len(b) \/ a[k + 1] /= b[k + 1]

\* The latest call returned the error of Delegate::init.
InitFailed == returned = "Err" /\ Last(log).fn = "init"

\* The latest call returned the error of Delegate::push.
PushFailed == returned = "Err" /\ Last(log).fn = "push"

\* C15: between calls, whatever callbacks failed before, valid_components is the
\* number of components of current_relative and current is root extended by
\* current_relative; the delegate never sees another stack; after a failed push the
\* component just pushed is gone from both paths and from the count.
C15_StackConsistent ==
    /\ stack_pc = "idle"
          => /\ valid_components = Len(current_relative)
             /\ current = root \o current_relative
    /\ \A k \in DOMAIN log : log[k].current = root \o log[k].current_relative
    /\ (stack_pc = "idle" /\ PushFailed)
          => LET seen == Last(log)
             IN /\ current = SubSeq(seen.current, 1, Len(seen.current) - 1)
                /\ current_relative =
                      SubSeq(seen.current_relative, 1, Len(seen.current_relative) - 1)
                /\ valid_components = Len(seen.current_relative) - 1

\* C15 witness: in a later call the push of a second new component failed and the
\* first one stayed.
C15_Witness ==
    /\ stack_pc = "idle"
    /\ calls >= 2
    /\ PushFailed
    /\ Len(LogOf("push")) = 2
    /\ valid_components = matching_components + 1
    /\ current_relative = SubSeq(relative, 1, matching_components + 1)

\* The pop loop of the latest call is over.
PopsOver ==
    \/ stack_pc = "push"
    \/ /\ stack_pc = "idle"
       /\ returned \in {"Ok", "Err"}
       /\ ~InitFailed

PopsPrecedePushes ==
    \A i, j \in DOMAIN log :
        (i < j /\ log[i].fn \in {"push_directory", "push"}) => log[j].fn /= "pop_directory"

\* One push per new component, in path order, as far as the call got.
PushesInPathOrder ==
    LET m == CommonPrefixLen(relative_before, relative)
        pushes == LogOf("push")
    IN /\ \A j \in DOMAIN pushes : pushes[j].current_relative = SubSeq(relative, 1, m + j)
       /\ returned = "Ok" => Len(pushes) = Len(relative) - m

\* C17 as stated: one pop_directory for each of the valid_components - m removed
\* components, all before the pushes, then one push per new component in path order.
C17_PopForEachRemoved ==
    PopsOver
        => /\ Len(LogOf("pop_directory"))
                 = valid_before - CommonPrefixLen(relative_before, relative)
           /\ PopsPrecedePushes
           /\ PushesInPathOrder

\* C17, amended: one pop_directory for each removed component but the first one
\* removed (the last component of the previous path), that is
\* max(valid_components - m - 1, 0) of them, all before the pushes, then one push per
\* new component in path order.
C17_PopForEachRemovedButFirst ==
    PopsOver
        => LET removed == valid_before - CommonPrefixLen(relative_before, relative)
           IN /\ Len(LogOf("pop_directory")) = (IF removed > 0 THEN removed - 1 ELSE 0)
              /\ PopsPrecedePushes
              /\ PushesInPathOrder

\* C17 witness: two components were removed, one pop_directory was issued, then a
\* new component was pushed.
C17_Witness ==
    /\ stack_pc = "idle"
    /\ returned = "Ok"
    /\ valid_before - CommonPrefixLen(relative_before, relative) = 2
    /\ Len(LogOf("pop_directory")) = 1
    /\ Len(LogOf("push")) >= 1

\* C18: at each call of Delegate::push both paths of the stack end in the component
\* being pushed; in a call that pushes and in which no callback fails, push gets
\* is_last_component = true once, for the final component of the requested path, and
\* false for every other component.
C18_LastComponentFlagged ==
    LET m == CommonPrefixLen(relative_before, relative)
        pushes == LogOf("push")
    IN /\ \A j \in DOMAIN pushes :
             /\ Last(pushes[j].current_relative) = relative[m + j]
             /\ Last(pushes[j].current) = relative[m + j]
       /\ (stack_pc = "idle" /\ returned = "Ok" /\ pushes /= <<>>)
             => /\ \A j \in DOMAIN pushes :
                      pushes[j].is_last_component <=> j = Len(pushes)
                /\ Last(pushes).current_relative = relative

\* C18 witness: below a kept component two components were pushed, the second one
\* flagged.
C18_Witness ==
    /\ stack_pc = "idle"
    /\ returned = "Ok"
    /\ matching_components = 1
    /\ Len(LogOf("push")) = 2
    /\ ~LogOf("push")[1].is_last_component
    /\ LogOf("push")[2].is_last_component

\* C19: Delegate::init is called at most once on one stack, in the first call of
\* make_relative_path_current.
C19_InitOnlyInFirstCall ==
    /\ inits <= 1
    /\ \A k \in DOMAIN log : log[k].fn = "init" => calls = 1

\* No callback has failed so far and no request shortened or extended the one before.
PlainHistory == failures = 0 /\ nested_requests = 0

\* C21: as long as no callback failed and no requested path was a strict prefix or a
\* strict extension of the path requested before, the calls of push_directory minus
\* the calls of pop_directory are, between calls, the number of non-final components
\* of current_relative (valid_components - 1, or 0 for the empty path), and
\* pop_directory was at no time called more often than push_directory.
C21_DirectoryNotificationsBalanced ==
    PlainHistory
        => /\ pop_directories <= push_directories
           /\ stack_pc = "idle"
                 => /\ push_directories - pop_directories
                          = (IF current_relative = <<>> THEN 0 ELSE Len(current_relative) - 1)
                    /\ push_directories - pop_directories
                          = (IF valid_components = 0 THEN 0 ELSE valid_components - 1)

\* C21 witness: three requests, none nested in the one before, directories entered
\* and left along the way, the stack now two components deep.
C21_Witness ==
    /\ PlainHistory
    /\ stack_pc = "idle"
    /\ returned = "Ok"
    /\ calls = 3
    /\ pop_directories = 3
    /\ push_directories = 4
    /\ valid_components = 2

====
